---- MODULE Spec2Model ----
(***************************************************************************)
(* State-machine model of WgpuToyRenderer (src/src/lib.rs): the shader     *)
(* hot-reload core (set_shader / rollback), the per-frame multi-pass       *)
(* dispatch (render / render_to), the uniform state setters, resize and    *)
(* the error reporting path (handle_error / on_error).                     *)
(***************************************************************************)
EXTENDS Integers, Sequences, FiniteSets, TLC

(***************************************************************************)
(* Bounds of the model (not program constants).                            *)
(***************************************************************************)
\* pipeline generations (successful parses) created in one behaviour
MaxInstalls == 3
\* value the frame counter may reach before render is no longer explored
MaxFrames == 2
\* diagnostics the backend error channel holds undelivered at one time
MaxInFlight == 1
\* successful parses in one behaviour of the frame-state specification
FrameInstalls == 1

(***************************************************************************)
(* Program constants.                                                      *)
(***************************************************************************)
NUM_KEYCODES == 256
MAX_CUSTOM_PARAMS == 16
\* depth_or_array_layers of the feedback textures and of the copy extent
FEEDBACK_LAYERS == 4
\* newlines of the three raw-string blocks of prelude()
PRELUDE_FIXED_NEWLINES == 33

(***************************************************************************)
(* Option<T> as a sequence of length at most one.                          *)
(***************************************************************************)
None == <<>>
Some(v) == <<v>>
IsSome(o) == Len(o) = 1
Unwrap(o) == o[1]

(***************************************************************************)
(* Byte-level helpers (bytemuck::bytes_of on little-endian wasm/x86).      *)
(***************************************************************************)
Pow2(n) == 2 ^ n

\* the 4 little-endian bytes of a 32-bit pattern
LeBytes32(w) ==
    << w % 256, (w \div 256) % 256, (w \div 65536) % 256, (w \div 16777216) % 256 >>

\* f32 values are carried by their IEEE-754 bit pattern: 0.0, 1.0, 2.0
F32_ZERO == 0
F32Values == {F32_ZERO, 1065353216, 1073741824}

\* flat_map(|x| bytes_of(x)) over a sequence of f32
RECURSIVE FlatBytes(_)
FlatBytes(s) == IF s = <<>> THEN <<>> ELSE LeBytes32(Head(s)) \o FlatBytes(Tail(s))

(***************************************************************************)
(* Names of custom parameters are byte strings (Rust String, compared      *)
(* byte-wise by BTreeMap).                                                 *)
(***************************************************************************)
NL == 10
\* "_dummy"
NameDummy == <<95, 100, 117, 109, 109, 121>>
\* "a"
NameA == <<97>>
\* "b"
NameB == <<98>>

\* lexicographic byte order of Rust's str Ord
RECURSIVE StrLess(_, _)
StrLess(x, y) ==
    IF x = <<>> THEN y # <<>>
    ELSE IF y = <<>> THEN FALSE
    ELSE IF Head(x) # Head(y) THEN Head(x) < Head(y)
    ELSE StrLess(Tail(x), Tail(y))

\* mutant: the keys are iterated in descending order
RECURSIVE SortedKeys_descending(_)
SortedKeys_descending(S) ==
    IF S = {} THEN <<>>
    ELSE LET m == CHOOSE x \in S : \A y \in S \ {x} : StrLess(y, x)
         IN  <<m>> \o SortedKeys_descending(S \ {m})

\* BTreeMap::keys(): the keys in ascending order
RECURSIVE SortedKeys(_)
SortedKeys(S) ==
    IF S = {} THEN <<>>
    ELSE LET m == CHOOSE x \in S : \A y \in S \ {x} : StrLess(x, y)
         IN  <<m>> \o SortedKeys(S \ {m})

\* BTreeMap::values(): the values in ascending key order
MapValues(m) == LET ks == SortedKeys(DOMAIN m) IN [i \in 1..Len(ks) |-> m[ks[i]]]

\* count_newlines(s)
RECURSIVE count_newlines(_)
count_newlines(s) ==
    IF s = <<>> THEN 0
    ELSE (IF Head(s) = NL THEN 1 ELSE 0) + count_newlines(Tail(s))

RECURSIVE SumNewlines(_)
SumNewlines(names) ==
    IF names = <<>> THEN 0
    ELSE count_newlines(Head(names)) + SumNewlines(Tail(names))

(***************************************************************************)
(* prelude(): the header text, abstracted to what the rest of the program  *)
(* depends on: its number of newlines, the field order of struct Custom    *)
(* and the storage format of pass_out.                                     *)
(***************************************************************************)
PassFormat(f32) == IF f32 THEN "rgba32float" ELSE "rgba16float"

prelude(cust, f32) ==
    LET names == SortedKeys(DOMAIN cust)
    IN  [ newlines    |-> PRELUDE_FIXED_NEWLINES + SumNewlines(names),
          fields      |-> names,
          pass_format |-> PassFormat(f32) ]

(***************************************************************************)
(* Shader texts given to set_shader.  A text is described by what          *)
(* wgsl::parse_str and the device make of it:                              *)
(*   parse  : "ok" or "err" (with the position of the error in the user    *)
(*            text, 1-based line, column)                                  *)
(*   eps    : the module's entry points in declaration order               *)
(*   valid  : the device accepts the module and its pipelines              *)
(*   faults : a dispatch of its pipelines raises a device error            *)
(***************************************************************************)
EP(name, stage, ws) == [name |-> name, stage |-> stage, workgroup_size |-> ws]

ShaderA ==
    [ id |-> "A", parse |-> "ok", valid |-> TRUE, faults |-> FALSE,
      eps |-> << EP("main", "compute", <<8, 8, 1>>) >>, line |-> 0, col |-> 0 ]
ShaderB ==
    [ id |-> "B", parse |-> "ok", valid |-> TRUE, faults |-> FALSE,
      eps |-> << EP("p1", "compute", <<16, 16, 1>>),
                 EP("fs", "fragment", <<0, 0, 0>>),
                 EP("p2", "compute", <<8, 4, 1>>) >>, line |-> 0, col |-> 0 ]
ShaderF ==
    [ id |-> "F", parse |-> "ok", valid |-> TRUE, faults |-> TRUE,
      eps |-> << EP("main", "compute", <<8, 8, 1>>) >>, line |-> 0, col |-> 0 ]
ShaderV ==
    [ id |-> "V", parse |-> "ok", valid |-> FALSE, faults |-> FALSE,
      eps |-> << EP("main", "compute", <<8, 8, 1>>) >>, line |-> 0, col |-> 0 ]
ShaderE ==
    [ id |-> "E", parse |-> "err", valid |-> FALSE, faults |-> FALSE,
      eps |-> <<>>, line |-> 3, col |-> 7 ]
\* a valid text without a compute entry point
ShaderZ ==
    [ id |-> "Z", parse |-> "ok", valid |-> TRUE, faults |-> FALSE,
      eps |-> << EP("vs", "vertex", <<0, 0, 0>>),
                 EP("fs", "fragment", <<0, 0, 0>>) >>, line |-> 0, col |-> 0 ]

Shaders == {ShaderA, ShaderB, ShaderF, ShaderV, ShaderE}

\* viewport sizes offered to resize; InitSize is window.inner_size() at new()
InitSize == <<64, 64>>
Sizes == { <<64, 64>>, <<100, 30>> }

\* registered JavaScript callbacks
Callbacks == {"c1", "c2"}

\* diagnostics of the backend error channel, as the regex of on_error sees
\* them: no match, or a match whose captures 1 and 2 parse (Some) or overflow
\* usize (None)
Unmatched == [matched |-> FALSE, row |-> None, col |-> None]
Matched(r, c) == [matched |-> TRUE, row |-> r, col |-> c]
Diagnostics == { Unmatched, Matched(Some(40), Some(5)), Matched(Some(2), None) }
\* the diagnostics of the pipeline-set specification
CoreDiagnostics == { Unmatched, Matched(Some(40), Some(5)) }

(***************************************************************************)
(* State.                                                                  *)
(***************************************************************************)
VARIABLES
    \* fields of WgpuToyRenderer
    screen_width, screen_height, time, mouse, keys, custom, uniforms,
    compute_bind_group_layout, compute_pipeline_layout,
    last_compute_pipelines, compute_pipelines, compute_bind_group,
    on_error_cb, pass_f32,
    \* static SHADER_ERROR
    SHADER_ERROR,
    \* a handler has panicked: the process (or the wasm call) is gone
    panicked,
    \* the closure registered with device.on_uncaptured_error
    uncaptured_handler,
    \* position inside render_to, its loop index and its command encoder
    pc, stage_idx, encoder,
    \* the device: diagnostics raised and not yet delivered, modules created
    device_errors, modules_created,
    \* observations of the step taken last: which handler step it was, the id
    \* of the shader text it was given ("" if none), the
    \* calls it made to ErrorCallback::call, what it logged, the command buffer
    \* it submitted; and the pipelines the frame in progress (or the frame
    \* rendered last) had at its test of SHADER_ERROR, with the outcome of
    \* that test ("no_error", "rollback", "no_rollback")
    last_op, last_arg, cb_calls, logged, submitted, frame_set, frame_outcome,
    \* observations: renders completed since construction or the last resize,
    \* whether a rollback replaced compute_pipelines since the last parse success
    frames_rendered, rolled_back,
    \* a second WgpuToyRenderer of the same process (the same wasm module):
    \* its pipeline slots, its frame counter and the modules its device made.
    \* It shares nothing with the first one but the static SHADER_ERROR.
    second

renderer_vars ==
    << screen_width, screen_height, time, mouse, keys, custom, uniforms,
       compute_bind_group_layout, compute_pipeline_layout,
       last_compute_pipelines, compute_pipelines, compute_bind_group,
       on_error_cb, pass_f32 >>
frame_vars == << pc, stage_idx, encoder >>
device_vars == << device_errors, modules_created >>
obs_vars ==
    << last_op, last_arg, cb_calls, logged, submitted, frame_set, frame_outcome,
       frames_rendered, rolled_back >>
vars ==
    << renderer_vars, SHADER_ERROR, panicked, uncaptured_handler, frame_vars,
       device_vars, obs_vars, second >>

(***************************************************************************)
(* GPU objects, described by the descriptor fields they were created with. *)
(***************************************************************************)
\* mutant: the quotient is rounded down
div_ceil_floor(a, b) == a \div b

\* num::Integer::div_ceil for u32
div_ceil(a, b) == (a \div b) + (IF a % b # 0 THEN 1 ELSE 0)

TexFormat(f32) == IF f32 THEN "Rgba32Float" ELSE "Rgba16Float"

\* mutant: the textures are created with width and height exchanged
create_uniforms_transposed(width, height, f32) ==
    [ time_size      |-> 8,
      mouse_size     |-> 12,
      custom_size    |-> MAX_CUSTOM_PARAMS * 4,
      keys_size      |-> NUM_KEYCODES \div 8,
      storage_buffer |-> 4 * 4 * width * height,
      tex_read       |-> [width |-> height, height |-> width,
                          layers |-> FEEDBACK_LAYERS, format |-> TexFormat(f32)],
      tex_write      |-> [width |-> height, height |-> width,
                          layers |-> FEEDBACK_LAYERS, format |-> TexFormat(f32)],
      tex_screen     |-> [width |-> height, height |-> width,
                          layers |-> 1, format |-> "Rgba16Float"] ]

create_uniforms(width, height, f32) ==
    [ time_size      |-> 8,
      mouse_size     |-> 12,
      custom_size    |-> MAX_CUSTOM_PARAMS * 4,
      keys_size      |-> NUM_KEYCODES \div 8,
      storage_buffer |-> 4 * 4 * width * height,
      tex_read       |-> [width |-> width, height |-> height,
                          layers |-> FEEDBACK_LAYERS, format |-> TexFormat(f32)],
      tex_write      |-> [width |-> width, height |-> height,
                          layers |-> FEEDBACK_LAYERS, format |-> TexFormat(f32)],
      tex_screen     |-> [width |-> width, height |-> height,
                          layers |-> 1, format |-> "Rgba16Float"] ]

\* the only entry of compute_bind_group_layout_entries that depends on pass_f32
\* is the storage texture format of binding 7
compute_bind_group_layout_entries(f32) == [pass_out_format |-> TexFormat(f32)]

\* the bind group refers to the layout and to the buffers and textures of
\* unif (the channel textures, which load_channel replaces, are left out)
create_compute_bind_group(layout, unif) == [layout |-> layout, uniforms |-> unif]

(***************************************************************************)
(* new()                                                                   *)
(***************************************************************************)
\* mutant: the map of custom parameters starts without its placeholder
InitCustom_empty == <<>>

\* lines 552-553: custom.insert("_dummy".into(), 0.)
InitCustom == (NameDummy :> F32_ZERO)

Init ==
    /\ screen_width = InitSize[1]
    /\ screen_height = InitSize[2]
    /\ time = [frame |-> 0, elapsed |-> F32_ZERO]
    /\ mouse = [pos |-> <<0, 0>>, click |-> 0]
    /\ keys = {}
    /\ custom = InitCustom
    /\ uniforms = create_uniforms(InitSize[1], InitSize[2], FALSE)
    /\ compute_bind_group_layout = compute_bind_group_layout_entries(FALSE)
    /\ compute_pipeline_layout = compute_bind_group_layout_entries(FALSE)
    /\ last_compute_pipelines = None
    /\ compute_pipelines = <<>>
    /\ compute_bind_group =
           create_compute_bind_group(compute_bind_group_layout_entries(FALSE),
                                     create_uniforms(InitSize[1], InitSize[2], FALSE))
    /\ on_error_cb = None
    /\ pass_f32 = FALSE
    /\ SHADER_ERROR = FALSE
    /\ panicked = FALSE
    /\ uncaptured_handler = None
    /\ pc = "idle"
    /\ stage_idx = 0
    /\ encoder = <<>>
    /\ device_errors = <<>>
    /\ modules_created = 0
    /\ last_op = "new"
    /\ last_arg = ""
    /\ cb_calls = <<>>
    /\ logged = <<>>
    /\ submitted = <<>>
    /\ frame_set = <<>>
    /\ frame_outcome = ""
    /\ frames_rendered = 0
    /\ rolled_back = FALSE
    /\ second = [ compute_pipelines |-> <<>>, last_compute_pipelines |-> None,
                  frame |-> 0, modules_created |-> 0 ]

(***************************************************************************)
(* ErrorCallback::call and the row remapping shared by handle_error and    *)
(* the uncaptured-error closure.                                           *)
(***************************************************************************)
\* one invocation of ErrorCallback::call: `to` is the registered function
\* (None: nothing is called, "No error callback registered" is logged)
ErrorCallback_call(cb, row, col) == [to |-> cb, row |-> row, col |-> col]

CallLog(cb) == IF cb = None THEN <<"error: No error callback registered">> ELSE <<>>

\* if row >= prelude_len { row - prelude_len } else { 0 }
RemapRow(row, prelude_len) == IF row >= prelude_len THEN row - prelude_len ELSE 0

\* Option::unwrap_or
unwrap_or(o, d) == IF IsSome(o) THEN Unwrap(o) ELSE d

(***************************************************************************)
(* wgsl::parse_str on prelude + shader.  The user text starts on the last  *)
(* line of the prelude, so line k of the user text is row                  *)
(* count_newlines(prelude) + k of the assembled source.                    *)
(***************************************************************************)
parse_str(pre, shader) ==
    IF shader.parse = "ok"
    THEN [ok |-> TRUE, entry_points |-> shader.eps, row |-> 0, col |-> 0]
    ELSE [ok |-> FALSE, entry_points |-> <<>>,
          row |-> pre.newlines + shader.line, col |-> shader.col]

\* mutant: every entry point is kept, whatever its stage
ComputeEntryPoints_all(eps) == eps

\* entry_points.iter().filter(|f| f.stage == Compute).collect()
RECURSIVE ComputeEntryPoints(_)
ComputeEntryPoints(eps) ==
    IF eps = <<>> THEN <<>>
    ELSE (IF Head(eps).stage = "compute" THEN <<Head(eps)>> ELSE <<>>)
         \o ComputeEntryPoints(Tail(eps))

\* the WGSL name of a storage texture format
WgslFormat(fmt) == IF fmt = "Rgba32Float" THEN "rgba32float" ELSE "rgba16float"

\* device.create_compute_pipeline: the pipeline object and the facts the
\* device knows about it
create_compute_pipeline(module, layout, entry_point) ==
    [ module      |-> module.id,
      source      |-> module.source,
      entry_point |-> entry_point.name,
      layout      |-> layout,
      prelude     |-> module.prelude,
      valid       |-> /\ module.valid
                      /\ module.prelude.pass_format = WgslFormat(layout.pass_out_format),
      faults      |-> module.faults ]

\* the (pipeline, workgroup_size) pairs of lines 712-719
NewPipelines(module, layout, eps) ==
    [ i \in 1..Len(eps) |->
        [ pipeline       |-> create_compute_pipeline(module, layout, eps[i]),
          workgroup_size |-> eps[i].workgroup_size ] ]

\* mutant: the new pipelines are stored before the old ones are saved
InstallSlots_overwrite(cur, new) == [last |-> Some(new), cur |-> new]

\* mutant: an empty current set is not worth keeping for a rollback
InstallSlots_skip_empty(cur, new) ==
    [last |-> IF cur = <<>> THEN None ELSE Some(cur), cur |-> new]

\* lines 711-719: the two slots after a successful parse
InstallSlots(cur, new) == [last |-> Some(cur), cur |-> new]

(***************************************************************************)
(* set_shader(shader)                                                      *)
(***************************************************************************)
set_shader_ok(shader, parsed, diag) ==
    LET pre    == prelude(custom, pass_f32)
        module == [ id |-> modules_created + 1, source |-> shader.id, prelude |-> pre,
                    valid |-> shader.valid, faults |-> shader.faults ]
        new    == NewPipelines(module, compute_pipeline_layout,
                               ComputeEntryPoints(parsed.entry_points))
        slots  == InstallSlots(compute_pipelines, new)
        bad    == ~shader.valid \/ \E i \in 1..Len(new) : ~new[i].pipeline.valid
    IN  /\ modules_created < MaxInstalls
        /\ modules_created' = modules_created + 1
        /\ last_compute_pipelines' = slots.last
        /\ compute_pipelines' = slots.cur
        \* a rejected module or pipeline raises a device error
        /\ IF bad
           THEN /\ Len(device_errors) < MaxInFlight
                /\ device_errors' = Append(device_errors, diag)
           ELSE UNCHANGED device_errors
        /\ cb_calls' = <<>>
        /\ logged' = <<>>
        /\ last_op' = "set_shader:ok"
        /\ last_arg' = shader.id
        /\ UNCHANGED panicked
        /\ rolled_back' = FALSE

\* handle_error(e, wgsl)
handle_error(parsed) ==
    LET prelude_len == prelude(custom, pass_f32).newlines
    IN  /\ cb_calls' = << ErrorCallback_call(on_error_cb,
                             RemapRow(parsed.row, prelude_len), parsed.col) >>
        /\ logged' = <<"error: Error parsing WGSL">> \o CallLog(on_error_cb)

\* mutant: the current pipelines are taken before the text is parsed
set_shader_err_takes(shader, parsed) ==
    /\ handle_error(parsed)
    /\ last_op' = "set_shader:err"
    /\ last_arg' = shader.id
    /\ UNCHANGED panicked
    /\ last_compute_pipelines' = Some(compute_pipelines)
    /\ compute_pipelines' = <<>>
    /\ UNCHANGED << device_vars, rolled_back >>

set_shader_err(shader, parsed) ==
    /\ handle_error(parsed)
    /\ last_op' = "set_shader:err"
    /\ last_arg' = shader.id
    /\ UNCHANGED panicked
    /\ UNCHANGED << last_compute_pipelines, compute_pipelines, device_vars, rolled_back >>

\* diag: the diagnostic text of the device error, should the device raise one
set_shader(shader, diag) ==
    /\ pc = "idle"
    /\ LET parsed == parse_str(prelude(custom, pass_f32), shader)
       IN  IF parsed.ok THEN set_shader_ok(shader, parsed, diag)
                        ELSE set_shader_err(shader, parsed)
    /\ UNCHANGED << screen_width, screen_height, time, mouse, keys, custom, uniforms,
                    compute_bind_group_layout, compute_pipeline_layout,
                    compute_bind_group, on_error_cb, pass_f32 >>
    /\ submitted' = <<>>
    /\ frame_set' = <<>>
    /\ frame_outcome' = ""
    /\ UNCHANGED << SHADER_ERROR, uncaptured_handler, frame_vars, frames_rendered >>

(***************************************************************************)
(* on_error(callback)                                                      *)
(***************************************************************************)
\* mutant: the closure given to the device at the first registration stays
on_error_keeps_closure(callback) ==
    /\ pc = "idle"
    /\ on_error_cb' = Some(callback)
    /\ uncaptured_handler' =
           (IF uncaptured_handler # None THEN uncaptured_handler
            ELSE Some([ on_error_cb |-> Some(callback),
                        prelude_len |-> prelude(custom, pass_f32).newlines ]))
    /\ last_op' = "on_error"
    /\ last_arg' = ""
    /\ UNCHANGED panicked
    /\ cb_calls' = <<>>
    /\ logged' = <<>>
    /\ UNCHANGED << screen_width, screen_height, time, mouse, keys, custom, uniforms,
                    compute_bind_group_layout, compute_pipeline_layout,
                    last_compute_pipelines, compute_pipelines, compute_bind_group,
                    pass_f32 >>
    /\ submitted' = <<>>
    /\ frame_set' = <<>>
    /\ frame_outcome' = ""
    /\ UNCHANGED << SHADER_ERROR, frame_vars, device_vars, frames_rendered, rolled_back >>

on_error(callback) ==
    /\ pc = "idle"
    /\ on_error_cb' = Some(callback)
    /\ uncaptured_handler' =
           Some([ on_error_cb |-> Some(callback),
                  prelude_len |-> prelude(custom, pass_f32).newlines ])
    /\ last_op' = "on_error"
    /\ last_arg' = ""
    /\ UNCHANGED panicked
    /\ cb_calls' = <<>>
    /\ logged' = <<>>
    /\ UNCHANGED << screen_width, screen_height, time, mouse, keys, custom, uniforms,
                    compute_bind_group_layout, compute_pipeline_layout,
                    last_compute_pipelines, compute_pipelines, compute_bind_group,
                    pass_f32 >>
    /\ submitted' = <<>>
    /\ frame_set' = <<>>
    /\ frame_outcome' = ""
    /\ UNCHANGED << SHADER_ERROR, frame_vars, device_vars, frames_rendered, rolled_back >>

(***************************************************************************)
(* The closure of on_error, run by the device for one uncaptured error.    *)
(* It may run at any point, also between the steps of render_to.           *)
(***************************************************************************)
\* mutant: a diagnostic without a location is forwarded with row 0, column 0
HandlerEffect_forwards(h, d) ==
    LET row == IF d.matched THEN unwrap_or(d.row, h.prelude_len) ELSE 0
        col == IF d.matched THEN unwrap_or(d.col, 0) ELSE 0
    IN  [ calls |-> << ErrorCallback_call(h.on_error_cb,
                          RemapRow(row, h.prelude_len), col) >>,
          flag  |-> d.matched,
          logs  |-> CallLog(h.on_error_cb) ]

\* what the closure does with diagnostic d: the call it makes (if any) and
\* whether it stores true into SHADER_ERROR
HandlerEffect(h, d) ==
    IF ~d.matched
    THEN [calls |-> <<>>, flag |-> FALSE, logs |-> <<"error: uncaptured">>]
    ELSE LET row == unwrap_or(d.row, h.prelude_len)
             col == unwrap_or(d.col, 0)
         IN  [ calls |-> << ErrorCallback_call(h.on_error_cb,
                               RemapRow(row, h.prelude_len), col) >>,
               flag  |-> TRUE,
               logs  |-> CallLog(h.on_error_cb) ]

\* mutant: the closure rolls the pipelines back itself, at once
uncaptured_error_rolls_back ==
    /\ device_errors # <<>>
    /\ uncaptured_handler # None
    /\ Head(device_errors).matched
    /\ IsSome(last_compute_pipelines)
    /\ compute_pipelines' = Unwrap(last_compute_pipelines)
    /\ last_compute_pipelines' = None
    /\ rolled_back' = TRUE
    /\ cb_calls' = HandlerEffect(Unwrap(uncaptured_handler), Head(device_errors)).calls
    /\ logged' = <<>>
    /\ device_errors' = Tail(device_errors)
    /\ last_op' = "uncaptured_error"
    /\ last_arg' = ""
    /\ UNCHANGED panicked
    /\ submitted' = <<>>
    /\ frame_set' = (IF pc = "idle" THEN <<>> ELSE frame_set)
    /\ frame_outcome' = (IF pc = "idle" THEN "" ELSE frame_outcome)
    /\ UNCHANGED << screen_width, screen_height, time, mouse, keys, custom, uniforms,
                    compute_bind_group_layout, compute_pipeline_layout,
                    compute_bind_group, on_error_cb, pass_f32 >>
    /\ UNCHANGED << SHADER_ERROR, uncaptured_handler, frame_vars, modules_created,
                    frames_rendered >>

\* mutant: a signal that arrives while a frame is being recorded is dropped
uncaptured_error_drops_in_frame ==
    /\ device_errors # <<>>
    /\ LET d == Head(device_errors)
       IN  IF uncaptured_handler = None
           THEN /\ cb_calls' = <<>>
                /\ logged' = <<"error: default uncaptured handler">>
                /\ UNCHANGED SHADER_ERROR
           ELSE LET eff == HandlerEffect(Unwrap(uncaptured_handler), d)
                IN  /\ cb_calls' = eff.calls
                    /\ logged' = eff.logs
                    /\ SHADER_ERROR' = (IF eff.flag /\ pc = "idle" THEN TRUE
                                        ELSE SHADER_ERROR)
    /\ device_errors' = Tail(device_errors)
    /\ last_op' = "uncaptured_error"
    /\ last_arg' = ""
    /\ UNCHANGED panicked
    /\ submitted' = <<>>
    /\ frame_set' = (IF pc = "idle" THEN <<>> ELSE frame_set)
    /\ frame_outcome' = (IF pc = "idle" THEN "" ELSE frame_outcome)
    /\ UNCHANGED << renderer_vars, uncaptured_handler, frame_vars, modules_created,
                    frames_rendered, rolled_back >>

uncaptured_error ==
    /\ device_errors # <<>>
    /\ LET d == Head(device_errors)
       IN  IF uncaptured_handler = None
           THEN \* no closure registered: the default handler of the device
                \* (on the web it logs the error) gets it
                /\ cb_calls' = <<>>
                /\ logged' = <<"error: default uncaptured handler">>
                /\ UNCHANGED SHADER_ERROR
           ELSE LET eff == HandlerEffect(Unwrap(uncaptured_handler), d)
                IN  /\ cb_calls' = eff.calls
                    /\ logged' = eff.logs
                    /\ SHADER_ERROR' = (IF eff.flag THEN TRUE ELSE SHADER_ERROR)
    /\ device_errors' = Tail(device_errors)
    /\ last_op' = "uncaptured_error"
    /\ last_arg' = ""
    /\ UNCHANGED panicked
    /\ submitted' = <<>>
    /\ frame_set' = (IF pc = "idle" THEN <<>> ELSE frame_set)
    /\ frame_outcome' = (IF pc = "idle" THEN "" ELSE frame_outcome)
    /\ UNCHANGED << renderer_vars, uncaptured_handler, frame_vars, modules_created,
                    frames_rendered, rolled_back >>

(***************************************************************************)
(* render() and render_to(frame).  render_to is one handler; it is cut     *)
(* at the points where the closure of on_error may run in between:         *)
(*   idle --render--> consume --consume--> dispatch (once per stage)       *)
(*        --finish--> idle                                                 *)
(***************************************************************************)
SumBits(ks, base) ==
    \* the byte of a Lsb0 bit array whose bit j is key base + j
    LET Bit(j) == IF (base + j) \in ks THEN Pow2(j) ELSE 0
    IN  Bit(0) + Bit(1) + Bit(2) + Bit(3) + Bit(4) + Bit(5) + Bit(6) + Bit(7)

\* keys.as_raw_slice(): NUM_KEYCODES / 8 bytes
KeyBytes(ks) == [i \in 1..(NUM_KEYCODES \div 8) |-> SumBits(ks, 8 * (i - 1))]

\* self.custom.values().flat_map(bytes_of)
CustomBytes(cust) == FlatBytes(MapValues(cust))

\* mutant: the frame counter is uploaded as it will be after the frame
TimeBytes_incremented(t) == LeBytes32(t.frame + 1) \o LeBytes32(t.elapsed)

\* bytes_of(&self.time), bytes_of(&self.mouse)
TimeBytes(t) == LeBytes32(t.frame) \o LeBytes32(t.elapsed)
MouseBytes(m) == LeBytes32(m.pos[1]) \o LeBytes32(m.pos[2]) \o LeBytes32(m.click)

\* stage(): one buffer write, or a warning when there is no data
stage(data, buffer) ==
    IF Len(data) = 0 THEN <<>>
    ELSE << [cmd |-> "write_buffer", buffer |-> buffer, data |-> data] >>

StageLog(data) == IF Len(data) = 0 THEN <<"warn: no data to stage">> ELSE <<>>

\* lines 596-600
Uploads(cust, t, m, ks) ==
    stage(CustomBytes(cust), "custom") \o stage(TimeBytes(t), "time")
    \o stage(MouseBytes(m), "mouse") \o stage(KeyBytes(ks), "keys")

\* mutant: the rollback set is taken out of its slot and dropped
ConsumeRollback_drop(flag, last, cur) ==
    IF flag
    THEN IF last = None
         THEN [cur |-> cur, last |-> None, rolled |-> FALSE,
               logs |-> <<"warn: unable to rollback shader after error">>]
         ELSE [cur |-> cur, last |-> None, rolled |-> TRUE, logs |-> <<>>]
    ELSE [cur |-> cur, last |-> last, rolled |-> FALSE, logs |-> <<>>]

\* mutant: without a rollback set the frame runs an empty set
ConsumeRollback_empty(flag, last, cur) ==
    IF flag
    THEN IF last = None
         THEN [cur |-> <<>>, last |-> None, rolled |-> FALSE,
               logs |-> <<"warn: unable to rollback shader after error">>]
         ELSE [cur |-> Unwrap(last), last |-> None, rolled |-> TRUE, logs |-> <<>>]
    ELSE [cur |-> cur, last |-> last, rolled |-> FALSE, logs |-> <<>>]

\* mutant: the two slots are swapped instead of the rollback slot being taken
ConsumeRollback_swap(flag, last, cur) ==
    IF flag
    THEN IF last = None
         THEN [cur |-> cur, last |-> None, rolled |-> FALSE,
               logs |-> <<"warn: unable to rollback shader after error">>]
         ELSE [cur |-> Unwrap(last), last |-> Some(cur), rolled |-> TRUE, logs |-> <<>>]
    ELSE [cur |-> cur, last |-> last, rolled |-> FALSE, logs |-> <<>>]

\* lines 602-609: SHADER_ERROR.swap(false) and the rollback
ConsumeRollback(flag, last, cur) ==
    IF flag
    THEN IF last = None
         THEN [cur |-> cur, last |-> None, rolled |-> FALSE,
               logs |-> <<"warn: unable to rollback shader after error">>]
         ELSE [cur |-> Unwrap(last), last |-> None, rolled |-> TRUE, logs |-> <<>>]
    ELSE [cur |-> cur, last |-> last, rolled |-> FALSE, logs |-> <<>>]

\* line 615: the grid of one dispatch
DispatchGrid(width, height, workgroup_size) ==
    << div_ceil(width, workgroup_size[1]), div_ceil(height, workgroup_size[2]), 1 >>

\* lines 611-634: the commands one stage records
StageCommands(st, bind_group, width, height) ==
    << [ cmd |-> "dispatch", pipeline |-> st.pipeline, bind_group |-> bind_group,
         grid |-> DispatchGrid(width, height, st.workgroup_size) ],
       [ cmd |-> "copy_texture_to_texture", src |-> "tex_write", dst |-> "tex_read",
         extent |-> <<width, height, FEEDBACK_LAYERS>> ] >>

\* mutant: the counter is advanced twice
NextFrame_twice(frame) == frame + 2

\* line 636: self.time.frame += 1 (a u32; render_upload keeps it below
\* MaxFrames, far from the wrap at 2^32)
NextFrame(frame) == frame + 1

\* the device rejects a dispatch of a pipeline that is invalid, that faults,
\* or whose layout differs from the layout of the bind group set for it
DispatchFaults(c) ==
    /\ c.cmd = "dispatch"
    /\ \/ ~c.pipeline.valid
       \/ c.pipeline.faults
       \/ c.pipeline.layout # c.bind_group.layout

\* the buffer of unif that a write_buffer command targets has this size
BufferSize(unif, buffer) ==
    CASE buffer = "custom" -> unif.custom_size
      [] buffer = "time"   -> unif.time_size
      [] buffer = "mouse"  -> unif.mouse_size
      [] buffer = "keys"   -> unif.keys_size

\* the device rejects a copy from the staging belt that overruns the buffer it
\* writes to
CopyOverruns(c, unif) ==
    /\ c.cmd = "write_buffer"
    /\ Len(c.data) > BufferSize(unif, c.buffer)

\* mutant: a render without a texture still tests and clears SHADER_ERROR
render_skip_consumes ==
    /\ pc = "idle"
    /\ SHADER_ERROR' = FALSE
    /\ last_op' = "render:skip"
    /\ last_arg' = ""
    /\ UNCHANGED panicked
    /\ cb_calls' = <<>>
    /\ logged' = <<"error: Unable to get framebuffer">>
    /\ submitted' = <<>>
    /\ frame_set' = <<>>
    /\ frame_outcome' = ""
    /\ UNCHANGED << renderer_vars, uncaptured_handler, frame_vars,
                    device_vars, frames_rendered, rolled_back >>

\* render(): the surface gives no texture
render_skip ==
    /\ pc = "idle"
    /\ last_op' = "render:skip"
    /\ last_arg' = ""
    /\ UNCHANGED panicked
    /\ cb_calls' = <<>>
    /\ logged' = <<"error: Unable to get framebuffer">>
    /\ submitted' = <<>>
    /\ frame_set' = <<>>
    /\ frame_outcome' = ""
    /\ UNCHANGED << renderer_vars, SHADER_ERROR, uncaptured_handler, frame_vars,
                    device_vars, frames_rendered, rolled_back >>

\* render() with a texture; render_to lines 595-601
render_upload ==
    /\ pc = "idle"
    /\ time.frame < MaxFrames
    /\ encoder' = Uploads(custom, time, mouse, keys)
    /\ pc' = "consume"
    /\ stage_idx' = 0
    /\ last_op' = "render_to:upload"
    /\ last_arg' = ""
    /\ UNCHANGED panicked
    /\ cb_calls' = <<>>
    /\ logged' = StageLog(CustomBytes(custom))
    /\ submitted' = <<>>
    /\ frame_set' = <<>>
    /\ frame_outcome' = ""
    /\ UNCHANGED << renderer_vars, SHADER_ERROR, uncaptured_handler,
                    device_vars, frames_rendered, rolled_back >>

\* mutant: the flag is read (load) and not cleared (swap)
render_consume_keeps_flag ==
    /\ pc = "consume"
    /\ LET r == ConsumeRollback(SHADER_ERROR, last_compute_pipelines, compute_pipelines)
       IN  /\ SHADER_ERROR' = SHADER_ERROR
           /\ compute_pipelines' = r.cur
           /\ last_compute_pipelines' = r.last
           /\ logged' = r.logs
           /\ frame_set' = r.cur
           /\ frame_outcome' = (IF ~SHADER_ERROR THEN "no_error"
                                ELSE IF r.rolled THEN "rollback" ELSE "no_rollback")
           /\ rolled_back' = (rolled_back \/ r.rolled)
           /\ last_op' = (IF ~SHADER_ERROR THEN "render_to:no_error"
                          ELSE IF r.rolled THEN "render_to:rollback"
                          ELSE "render_to:no_rollback")
           /\ last_arg' = ""
           /\ UNCHANGED panicked
    /\ pc' = "dispatch"
    /\ stage_idx' = 1
    /\ cb_calls' = <<>>
    /\ UNCHANGED << screen_width, screen_height, time, mouse, keys, custom, uniforms,
                    compute_bind_group_layout, compute_pipeline_layout,
                    compute_bind_group, on_error_cb, pass_f32 >>
    /\ UNCHANGED << uncaptured_handler, encoder, device_vars, submitted, frames_rendered >>

\* render_to lines 602-609
render_consume ==
    /\ pc = "consume"
    /\ LET r == ConsumeRollback(SHADER_ERROR, last_compute_pipelines, compute_pipelines)
       IN  /\ SHADER_ERROR' = FALSE
           /\ compute_pipelines' = r.cur
           /\ last_compute_pipelines' = r.last
           /\ logged' = r.logs
           /\ frame_set' = r.cur
           /\ frame_outcome' = (IF ~SHADER_ERROR THEN "no_error"
                                ELSE IF r.rolled THEN "rollback" ELSE "no_rollback")
           /\ rolled_back' = (rolled_back \/ r.rolled)
           /\ last_op' = (IF ~SHADER_ERROR THEN "render_to:no_error"
                          ELSE IF r.rolled THEN "render_to:rollback"
                          ELSE "render_to:no_rollback")
           /\ last_arg' = ""
           /\ UNCHANGED panicked
    /\ pc' = "dispatch"
    /\ stage_idx' = 1
    /\ cb_calls' = <<>>
    /\ UNCHANGED << screen_width, screen_height, time, mouse, keys, custom, uniforms,
                    compute_bind_group_layout, compute_pipeline_layout,
                    compute_bind_group, on_error_cb, pass_f32 >>
    /\ UNCHANGED << uncaptured_handler, encoder, device_vars, submitted, frames_rendered >>

\* render_to lines 610-635, one iteration of the loop
render_dispatch ==
    /\ pc = "dispatch"
    /\ stage_idx <= Len(compute_pipelines)
    /\ encoder' = encoder \o StageCommands(compute_pipelines[stage_idx],
                                           compute_bind_group, screen_width, screen_height)
    /\ stage_idx' = stage_idx + 1
    /\ last_op' = "render_to:dispatch"
    /\ last_arg' = ""
    /\ UNCHANGED panicked
    /\ cb_calls' = <<>>
    /\ logged' = <<>>
    /\ UNCHANGED << renderer_vars, SHADER_ERROR, uncaptured_handler, pc,
                    device_vars, submitted, frame_set, frame_outcome,
                    frames_rendered, rolled_back >>

\* render_to lines 636-640; diag: the diagnostic text of the device error,
\* should the device raise one
render_finish(diag) ==
    /\ pc = "dispatch"
    /\ stage_idx > Len(compute_pipelines)
    /\ time' = [time EXCEPT !.frame = NextFrame(time.frame)]
    /\ LET cmds == encoder \o << [cmd |-> "blit", src |-> uniforms.tex_screen] >>
       IN  /\ submitted' = cmds
           \* queue.submit: a faulting dispatch or a copy that overruns its
           \* buffer raises a device error
           /\ IF \E i \in 1..Len(cmds) :
                    DispatchFaults(cmds[i]) \/ CopyOverruns(cmds[i], uniforms)
              THEN /\ Len(device_errors) < MaxInFlight
                   /\ device_errors' = Append(device_errors, diag)
              ELSE UNCHANGED device_errors
    /\ encoder' = <<>>
    /\ pc' = "idle"
    /\ stage_idx' = 0
    /\ frames_rendered' = frames_rendered + 1
    /\ last_op' = "render_to:submit"
    /\ last_arg' = ""
    /\ UNCHANGED panicked
    /\ cb_calls' = <<>>
    /\ logged' = <<>>
    /\ UNCHANGED << screen_width, screen_height, mouse, keys, custom, uniforms,
                    compute_bind_group_layout, compute_pipeline_layout,
                    last_compute_pipelines, compute_pipelines, compute_bind_group,
                    on_error_cb, pass_f32 >>
    /\ UNCHANGED << SHADER_ERROR, uncaptured_handler, modules_created,
                    frame_set, frame_outcome, rolled_back >>

(***************************************************************************)
(* resize(width, height)                                                   *)
(***************************************************************************)
resize(width, height) ==
    /\ pc = "idle"
    /\ screen_width' = width
    /\ screen_height' = height
    /\ time' = [time EXCEPT !.frame = 0]
    /\ uniforms' = create_uniforms(width, height, pass_f32)
    /\ compute_bind_group_layout' = compute_bind_group_layout_entries(pass_f32)
    /\ compute_pipeline_layout' = compute_bind_group_layout_entries(pass_f32)
    /\ compute_bind_group' =
           create_compute_bind_group(compute_bind_group_layout_entries(pass_f32),
                                     create_uniforms(width, height, pass_f32))
    /\ frames_rendered' = 0
    /\ last_op' = "resize"
    /\ last_arg' = ""
    /\ UNCHANGED panicked
    /\ cb_calls' = <<>>
    /\ logged' = <<>>
    /\ UNCHANGED << mouse, keys, custom, last_compute_pipelines, compute_pipelines,
                    on_error_cb, pass_f32 >>
    /\ submitted' = <<>>
    /\ frame_set' = <<>>
    /\ frame_outcome' = ""
    /\ UNCHANGED << SHADER_ERROR, uncaptured_handler, frame_vars, device_vars,
                    rolled_back >>

(***************************************************************************)
(* The setters of the uniform state.                                       *)
(***************************************************************************)
\* mutant: a setter drops the pipelines kept for a rollback
SetterFrame_drops_rollback(op) ==
    /\ pc = "idle"
    /\ last_op' = op
    /\ last_arg' = ""
    /\ cb_calls' = <<>>
    /\ logged' = <<>>
    /\ submitted' = <<>>
    /\ frame_set' = <<>>
    /\ frame_outcome' = ""
    /\ last_compute_pipelines' = None
    /\ UNCHANGED << screen_width, screen_height, uniforms,
                    compute_bind_group_layout, compute_pipeline_layout,
                    compute_pipelines, compute_bind_group, on_error_cb >>
    /\ UNCHANGED << SHADER_ERROR, uncaptured_handler, frame_vars, device_vars,
                    frames_rendered, rolled_back >>

\* what every setter leaves alone
SetterFrame(op) ==
    /\ pc = "idle"
    /\ last_op' = op
    /\ last_arg' = ""
    /\ cb_calls' = <<>>
    /\ logged' = <<>>
    /\ submitted' = <<>>
    /\ frame_set' = <<>>
    /\ frame_outcome' = ""
    /\ UNCHANGED << screen_width, screen_height, uniforms,
                    compute_bind_group_layout, compute_pipeline_layout,
                    last_compute_pipelines, compute_pipelines, compute_bind_group,
                    on_error_cb >>
    /\ UNCHANGED << SHADER_ERROR, uncaptured_handler, frame_vars, device_vars,
                    frames_rendered, rolled_back >>

set_time_elapsed(t) ==
    /\ SetterFrame("set_time_elapsed")
    /\ time' = [time EXCEPT !.elapsed = t]
    /\ UNCHANGED << mouse, keys, custom, pass_f32, panicked >>

set_mouse_pos(x, y) ==
    /\ SetterFrame("set_mouse_pos")
    /\ mouse' = [mouse EXCEPT !.pos = <<x, y>>]
    /\ UNCHANGED << time, keys, custom, pass_f32, panicked >>

set_mouse_click(click) ==
    /\ SetterFrame("set_mouse_click")
    /\ mouse' = [mouse EXCEPT !.click = IF click THEN 1 ELSE 0]
    /\ UNCHANGED << time, keys, custom, pass_f32, panicked >>

\* BitSlice::set(index, value): panics when index is out of bounds
BitSet(bits, index, value) == IF value THEN bits \cup {index} ELSE bits \ {index}

\* mutant: a key code past the end of the bit array is clamped to the last bit
set_keydown_clamped(keycode, keydown) ==
    /\ SetterFrame("set_keydown")
    /\ keys' = BitSet(keys, IF keycode < NUM_KEYCODES THEN keycode ELSE NUM_KEYCODES - 1,
                      keydown)
    /\ UNCHANGED << time, mouse, custom, pass_f32, panicked >>

set_keydown(keycode, keydown) ==
    /\ SetterFrame("set_keydown")
    /\ IF keycode < NUM_KEYCODES
       THEN /\ keys' = BitSet(keys, keycode, keydown)
            /\ UNCHANGED panicked
       ELSE /\ panicked' = TRUE
            /\ UNCHANGED keys
    /\ UNCHANGED << time, mouse, custom, pass_f32 >>

\* BTreeMap::insert(name, value)
MapInsert(m, name, value) ==
    [k \in DOMAIN m \cup {name} |-> IF k = name THEN value ELSE m[k]]

set_custom_float(name, value) ==
    /\ SetterFrame("set_custom_float")
    /\ custom' = MapInsert(custom, name, value)
    /\ UNCHANGED << time, mouse, keys, pass_f32, panicked >>

set_pass_f32(f32) ==
    /\ SetterFrame("set_pass_f32")
    /\ pass_f32' = f32
    /\ UNCHANGED << time, mouse, keys, custom, panicked >>

(***************************************************************************)
(* The second renderer.  It runs the same set_shader and render; its       *)
(* custom parameters, precision flag and viewport stay as new() made them, *)
(* no callback is registered on it and its command buffers are not         *)
(* observed.  JavaScript is single-threaded: it runs between the calls of  *)
(* the first renderer, never inside one.                                   *)
(***************************************************************************)
\* what a call on the second renderer leaves alone in the first
SecondFrame(op) ==
    /\ pc = "idle"
    /\ last_op' = op
    /\ last_arg' = ""
    /\ cb_calls' = <<>>
    /\ submitted' = <<>>
    /\ frame_set' = <<>>
    /\ frame_outcome' = ""
    /\ UNCHANGED << renderer_vars, panicked, uncaptured_handler, frame_vars,
                    device_vars, frames_rendered, rolled_back >>

\* set_shader(shader) on the second renderer, shader a valid text
second_set_shader(shader) ==
    LET pre    == prelude(InitCustom, FALSE)
        parsed == parse_str(pre, shader)
        module == [ id |-> second.modules_created + 1, source |-> shader.id,
                    prelude |-> pre, valid |-> shader.valid, faults |-> shader.faults ]
        new    == NewPipelines(module, compute_bind_group_layout_entries(FALSE),
                               ComputeEntryPoints(parsed.entry_points))
        slots  == InstallSlots(second.compute_pipelines, new)
    IN  /\ SecondFrame("second:set_shader")
        /\ parsed.ok
        /\ second.modules_created < FrameInstalls
        /\ second' = [second EXCEPT !.compute_pipelines = slots.cur,
                                    !.last_compute_pipelines = slots.last,
                                    !.modules_created = @ + 1]
        /\ logged' = <<>>
        /\ UNCHANGED SHADER_ERROR

\* render() on the second renderer, with a texture: render_to as a whole
second_render ==
    LET r == ConsumeRollback(SHADER_ERROR, second.last_compute_pipelines,
                             second.compute_pipelines)
    IN  /\ SecondFrame("second:render")
        /\ second.frame < MaxFrames
        /\ SHADER_ERROR' = FALSE
        /\ second' = [second EXCEPT !.compute_pipelines = r.cur,
                                    !.last_compute_pipelines = r.last,
                                    !.frame = NextFrame(@)]
        /\ logged' = r.logs

(***************************************************************************)
(* The pipeline-set specification: installs, frames, device errors,        *)
(* callback registration and resize.                                       *)
(***************************************************************************)
Next ==
    /\ ~panicked
    /\ UNCHANGED second
    /\ \/ \E s \in Shaders, d \in CoreDiagnostics : set_shader(s, d)
       \/ \E c \in {"c1"} : on_error(c)
       \/ uncaptured_error
       \/ render_skip
       \/ render_upload
       \/ render_consume
       \/ render_dispatch
       \/ \E d \in CoreDiagnostics : render_finish(d)
       \/ \E sz \in Sizes : resize(sz[1], sz[2])

Spec == Init /\ [][Next]_vars

(***************************************************************************)
(* The frame-state specification: every operation of the renderer, with    *)
(* one faulting and one unparsable shader text and small input sets.       *)
(***************************************************************************)
FrameShaders == {ShaderF, ShaderE}
FrameDiagnostics == { Matched(Some(40), Some(5)) }
FrameSizes == { <<100, 30>> }
FrameKeyCodes == {9, NUM_KEYCODES}

NextFrameState ==
    /\ ~panicked
    /\ UNCHANGED second
    /\ \/ \E s \in FrameShaders, d \in FrameDiagnostics :
             modules_created < FrameInstalls /\ set_shader(s, d)
       \/ \E c \in {"c1"} : on_error(c)
       \/ uncaptured_error
       \/ render_skip
       \/ render_upload
       \/ render_consume
       \/ render_dispatch
       \/ \E d \in FrameDiagnostics : render_finish(d)
       \/ \E sz \in FrameSizes : resize(sz[1], sz[2])
       \/ \E v \in F32Values \ {F32_ZERO, 1073741824} : set_time_elapsed(v)
       \/ set_mouse_pos(3, 4)
       \/ set_mouse_click(TRUE)
       \/ \E k \in FrameKeyCodes : set_keydown(k, TRUE)
       \/ \E v \in F32Values \ {F32_ZERO, 1073741824} : set_custom_float(NameA, v)
       \/ set_pass_f32(TRUE)

SpecFrameState == Init /\ [][NextFrameState]_vars

(***************************************************************************)
(* The custom-parameter specification: a caller that adds the parameters   *)
(* "a", "b", ... "p" one after the other and renders frames in between.    *)
(* No shader is installed, so the loop of render_to has no iteration.      *)
(***************************************************************************)
\* the one-letter names "a" (i = 0) to "p" (i = 15)
ParamName(i) == <<97 + i>>

NextCustomParams ==
    /\ ~panicked
    /\ UNCHANGED second
    /\ \/ \E i \in 0..(MAX_CUSTOM_PARAMS - 1), v \in F32Values \ {F32_ZERO, 1073741824} :
             /\ Cardinality(DOMAIN custom) = i + 1
             /\ set_custom_float(ParamName(i), v)
       \/ \E c \in {"c1"} : on_error(c)
       \/ uncaptured_error
       \/ render_upload
       \/ render_consume
       \/ \E d \in FrameDiagnostics : render_finish(d)

SpecCustomParams == Init /\ [][NextCustomParams]_vars

(***************************************************************************)
(* The input specification: the keyboard and the custom parameters "a" and *)
(* "b" set in any order with two values, one shader text, and frames.      *)
(***************************************************************************)
InputKeyCodes == {9, NUM_KEYCODES - 1, NUM_KEYCODES}
InputNames == {NameA, NameB}

NextInput ==
    /\ ~panicked
    /\ UNCHANGED second
    /\ \/ \E k \in InputKeyCodes, b \in BOOLEAN : set_keydown(k, b)
       \/ \E n \in InputNames, v \in F32Values \ {F32_ZERO} : set_custom_float(n, v)
       \/ \E d \in FrameDiagnostics :
             modules_created < FrameInstalls /\ set_shader(ShaderA, d)
       \/ render_upload
       \/ render_consume
       \/ render_dispatch
       \/ \E d \in FrameDiagnostics : render_finish(d)

SpecInput == Init /\ [][NextInput]_vars

(***************************************************************************)
(* The error-report specification: two callbacks, a parameter whose name   *)
(* holds a newline (so that the prelude grows by a line), a text that does *)
(* not parse, a text the device rejects, and every kind of diagnostic.     *)
(***************************************************************************)
\* "a\n": the prelude then reads "a\n: float,", which is a field named a
NameNL == <<97, NL>>

ReportShaders == {ShaderE, ShaderV}
ReportDiagnostics == Diagnostics \cup { Matched(None, Some(5)) }

\* the callback c2 is registered only in place of c1, so that a call of c2
\* is a call after a replacement
NextReport ==
    /\ ~panicked
    /\ UNCHANGED second
    /\ \/ \E s \in ReportShaders, d \in ReportDiagnostics :
             modules_created < FrameInstalls /\ set_shader(s, d)
       \/ \E c \in Callbacks :
             (c = "c2" => on_error_cb = Some("c1")) /\ on_error(c)
       \/ \E v \in F32Values \ {F32_ZERO, 1073741824} : set_custom_float(NameNL, v)
       \/ uncaptured_error
       \/ render_upload
       \/ render_consume
       \/ render_dispatch
       \/ \E d \in ReportDiagnostics : render_finish(d)

SpecReport == Init /\ [][NextReport]_vars

(***************************************************************************)
(* The rollback specification: a valid text, a text that faults when it is *)
(* dispatched and a text the device rejects, frames with and without a     *)
(* surface texture, and diagnostics that match the pattern.                *)
(***************************************************************************)
RollbackShaders == {ShaderA, ShaderF, ShaderV}

NextRollback ==
    /\ ~panicked
    /\ UNCHANGED second
    /\ \/ \E s \in RollbackShaders, d \in FrameDiagnostics : set_shader(s, d)
       \/ \E c \in {"c1"} : on_error(c)
       \/ uncaptured_error
       \/ render_skip
       \/ render_upload
       \/ render_consume
       \/ render_dispatch
       \/ \E d \in FrameDiagnostics : render_finish(d)

SpecRollback == Init /\ [][NextRollback]_vars

(***************************************************************************)
(* The entry-point specification: valid texts with one, two and no compute *)
(* entry point, installed in any order, and frames.                        *)
(***************************************************************************)
EntryPointShaders == {ShaderA, ShaderB, ShaderZ}

NextEntryPoints ==
    /\ ~panicked
    /\ UNCHANGED second
    /\ \/ \E s \in EntryPointShaders, d \in FrameDiagnostics : set_shader(s, d)
       \/ render_upload
       \/ render_consume
       \/ render_dispatch
       \/ \E d \in FrameDiagnostics : render_finish(d)

SpecEntryPoints == Init /\ [][NextEntryPoints]_vars

(***************************************************************************)
(* The install-order specification: the caller installs a valid text, then *)
(* a text that faults when dispatched, then another valid text, with       *)
(* frames and the delivery of diagnostics anywhere in between.  The second *)
(* module is the only one whose dispatch raises a fault.                   *)
(***************************************************************************)
InstallOrder == <<ShaderA, ShaderF, ShaderB>>

NextInstallOrder ==
    /\ ~panicked
    /\ UNCHANGED second
    /\ \/ \E d \in FrameDiagnostics :
             /\ modules_created < Len(InstallOrder)
             /\ set_shader(InstallOrder[modules_created + 1], d)
       \/ \E c \in {"c1"} : on_error(c)
       \/ uncaptured_error
       \/ render_upload
       \/ render_consume
       \/ render_dispatch
       \/ \E d \in FrameDiagnostics : render_finish(d)

SpecInstallOrder == Init /\ [][NextInstallOrder]_vars

(***************************************************************************)
(* The two-renderer specification: the first renderer with a valid and a   *)
(* faulting text, its callback and its frames, and the second renderer     *)
(* with a valid text and its frames.  Every diagnostic is one of the first *)
(* renderer's device.                                                      *)
(***************************************************************************)
TwoRendererShaders == {ShaderA, ShaderF}

NextTwoRenderers ==
    /\ ~panicked
    /\ \/ /\ UNCHANGED second
          /\ \/ \E s \in TwoRendererShaders, d \in FrameDiagnostics :
                   modules_created < FrameInstalls /\ set_shader(s, d)
             \/ \E c \in {"c1"} : on_error(c)
             \/ uncaptured_error
             \/ render_upload
             \/ render_consume
             \/ render_dispatch
             \/ \E d \in FrameDiagnostics : render_finish(d)
       \/ second_set_shader(ShaderA)
       \/ second_render

SpecTwoRenderers == Init /\ [][NextTwoRenderers]_vars

(***************************************************************************)
(* The recovery specification: texts that fault at dispatch, that the      *)
(* device rejects and that do not parse, the callback, frames with and     *)
(* without a texture.  Fairness: the embedder keeps calling render() and   *)
(* the surface eventually gives a texture (render_upload); render_to, once *)
(* begun, runs to its end (render_consume, render_dispatch,                *)
(* render_finish); the device delivers the errors it has raised            *)
(* (uncaptured_error).                                                     *)
(***************************************************************************)
RecoveryShaders == {ShaderF, ShaderV, ShaderE}

render_submit == \E d \in FrameDiagnostics : render_finish(d)

NextRecovery ==
    /\ ~panicked
    /\ UNCHANGED second
    /\ \/ \E s \in RecoveryShaders, d \in FrameDiagnostics : set_shader(s, d)
       \/ \E c \in {"c1"} : on_error(c)
       \/ uncaptured_error
       \/ render_skip
       \/ render_upload
       \/ render_consume
       \/ render_dispatch
       \/ render_submit

SpecRecovery ==
    /\ Init
    /\ [][NextRecovery]_vars
    /\ WF_vars(render_upload /\ UNCHANGED second)
    /\ WF_vars(render_consume /\ UNCHANGED second)
    /\ WF_vars(render_dispatch /\ UNCHANGED second)
    /\ WF_vars(render_submit /\ UNCHANGED second)
    /\ WF_vars(uncaptured_error /\ UNCHANGED second)

(***************************************************************************)
(* Properties.                                                             *)
(***************************************************************************)
\* the pipelines of a set, and the pipelines a command list dispatches
PipelinesOf(set) == [i \in 1..Len(set) |-> set[i].pipeline]
IsDispatch(c) == c.cmd = "dispatch"
Dispatched(cmds) ==
    LET ds == SelectSeq(cmds, IsDispatch) IN [i \in 1..Len(ds) |-> ds[i].pipeline]

\* the names of the compute entry points of a shader text, in source order
IsCompute(e) == e.stage = "compute"
ComputeNames(shader) ==
    LET es == SelectSeq(shader.eps, IsCompute) IN [i \in 1..Len(es) |-> es[i].name]
ShaderOf(id) == CHOOSE s \in Shaders \cup {ShaderZ} : s.id = id

\* the step tests and clears SHADER_ERROR (render_to line 602)
ConsumeStep == pc = "consume" /\ pc' = "dispatch"

\* C1: every set_shader whose text parses makes the set that was current
\* before the call the rollback slot, and makes current the pipelines just
\* compiled from the given text: one per compute entry point, all of the
\* module created by this call.
C1_InstallSwapsSlots ==
    [][ last_op' = "set_shader:ok" =>
          /\ last_compute_pipelines' = Some(compute_pipelines)
          /\ modules_created' = modules_created + 1
          /\ [i \in 1..Len(compute_pipelines') |-> compute_pipelines'[i].pipeline.entry_point]
                = ComputeNames(ShaderOf(last_arg'))
          /\ \A i \in 1..Len(compute_pipelines') :
                /\ compute_pipelines'[i].pipeline.module = modules_created'
                /\ compute_pipelines'[i].pipeline.source = last_arg' ]_vars

\* C1 witness: a successful set_shader whose rollback slot holds a set of an
\* older module than the one installed before it, i.e. the call came after a
\* rollback had put that older set back.
C1_Witness ==
    /\ last_op = "set_shader:ok"
    /\ IsSome(last_compute_pipelines)
    /\ Unwrap(last_compute_pipelines) # <<>>
    /\ Unwrap(last_compute_pipelines)[1].pipeline.module + 1 < modules_created
    /\ compute_pipelines # <<>>

\* C2: a set_shader whose text does not parse changes nothing of the renderer,
\* of SHADER_ERROR, of the frame position or of the device (so the next frame
\* dispatches what it would have dispatched), and makes exactly one call of
\* ErrorCallback::call, on the callback registered.
C2_ParseFailureKeepsSlots ==
    [][ last_op' = "set_shader:err" =>
          /\ compute_pipelines' = compute_pipelines
          /\ last_compute_pipelines' = last_compute_pipelines
          /\ UNCHANGED << renderer_vars, SHADER_ERROR, uncaptured_handler,
                          frame_vars, device_vars >>
          /\ Len(cb_calls') = 1
          /\ cb_calls'[1].to = on_error_cb ]_vars

\* C2 witness: a failed set_shader with a callback registered, a running set
\* and a rollback set.
C2_Witness ==
    /\ last_op = "set_shader:err"
    /\ on_error_cb = Some("c1")
    /\ Len(cb_calls) = 1
    /\ compute_pipelines # <<>>
    /\ IsSome(last_compute_pipelines)
    /\ Unwrap(last_compute_pipelines) # <<>>

\* C3 (as claimed): a set_shader whose text parses but which the device
\* rejects leaves current and rollback as they were.
C3_ValidationFailureKeepsSlots ==
    [][ (last_op' = "set_shader:ok" /\ ~ShaderOf(last_arg').valid) =>
          /\ compute_pipelines' = compute_pipelines
          /\ last_compute_pipelines' = last_compute_pipelines ]_vars

\* C4: the step of a frame that tests SHADER_ERROR comes before any dispatch
\* of the frame and clears the flag; if the flag was set and a rollback set is
\* stored, that set becomes current, and the frame dispatches exactly it.
C4_RollbackAtFrameStart ==
    /\ [][ ConsumeStep =>
             /\ Dispatched(encoder) = <<>>
             /\ SHADER_ERROR' = FALSE
             /\ (SHADER_ERROR /\ IsSome(last_compute_pipelines)) =>
                    /\ compute_pipelines' = Unwrap(last_compute_pipelines)
                    /\ frame_set' = Unwrap(last_compute_pipelines) ]_vars
    /\ [](last_op = "render_to:submit" => Dispatched(submitted) = PipelinesOf(frame_set))

\* C4 witness: the second frame since construction is submitted, it has
\* dispatched the stage of shader A (module 1) after a rollback removed
\* module 2, whose dispatch or creation the device rejected.
C4_Witness ==
    /\ last_op = "render_to:submit"
    /\ frame_outcome = "rollback"
    /\ modules_created = 2
    /\ time.frame = 2
    /\ Len(Dispatched(submitted)) = 1
    /\ Dispatched(submitted)[1].source = "A"
    /\ Dispatched(submitted)[1].module = 1
    /\ last_compute_pipelines = None

RollbackWarning == "warn: unable to rollback shader after error"
IsWarning(l) == l = RollbackWarning

\* C5 (as claimed): a frame that finds SHADER_ERROR set and no rollback set
\* stored runs with an empty set and logs a warning.
C5_NoRollbackRunsEmpty ==
    [][ (ConsumeStep /\ SHADER_ERROR /\ last_compute_pipelines = None) =>
          /\ frame_set' = <<>>
          /\ compute_pipelines' = <<>>
          /\ logged' = <<RollbackWarning>> ]_vars

\* C5 (amended): a frame that finds SHADER_ERROR set and no rollback set
\* stored clears the flag, logs the warning, leaves current and the empty
\* slot as they are, and dispatches exactly the current set (which is empty
\* only if it was empty before the frame).
C5_NoRollbackKeepsCurrent ==
    /\ [][ (ConsumeStep /\ SHADER_ERROR /\ last_compute_pipelines = None) =>
             /\ SHADER_ERROR' = FALSE
             /\ logged' = <<RollbackWarning>>
             /\ compute_pipelines' = compute_pipelines
             /\ last_compute_pipelines' = None
             /\ frame_set' = compute_pipelines ]_vars
    /\ [][ (ConsumeStep /\ ~(SHADER_ERROR /\ last_compute_pipelines = None)) =>
             SelectSeq(logged', IsWarning) = <<>> ]_vars
    /\ [](last_op = "render_to:submit" => Dispatched(submitted) = PipelinesOf(frame_set))

\* C5 witness: a frame found the flag set and no rollback set, and is
\* submitted with the dispatches of a set that is not empty.
C5_Witness ==
    /\ last_op = "render_to:submit"
    /\ frame_outcome = "no_rollback"
    /\ last_compute_pipelines = None
    /\ Len(Dispatched(submitted)) = 2
    /\ frame_set = compute_pipelines

\* C6 (as claimed): the rollback slot is None until the second successful
\* compile.
C6_RollbackNoneUntilSecondCompile ==
    modules_created <= 1 => last_compute_pipelines = None

\* C6 (amended): the rollback slot is None before any successful compile;
\* the first successful compile already fills it, with the empty set that
\* was current until then, and from then on the slot is None exactly when a
\* rollback has taken the set out of it since the latest successful compile.
C6_RollbackSlotFilledByFirstCompile ==
    /\ modules_created = 0 =>
          /\ last_compute_pipelines = None
          /\ compute_pipelines = <<>>
    /\ (modules_created = 1 /\ ~rolled_back) => last_compute_pipelines = Some(<<>>)
    /\ modules_created >= 1 => (last_compute_pipelines = None <=> rolled_back)

\* C6 witness: the first successful set_shader has just returned.
C6_Witness ==
    /\ last_op = "set_shader:ok"
    /\ modules_created = 1
    /\ last_compute_pipelines = Some(<<>>)
    /\ compute_pipelines # <<>>

\* C7: a rollback happens only in a frame that finds the flag set, it clears
\* the flag and empties the rollback slot; a frame that finds the flag clear
\* rolls nothing back; the slot stays empty until the next successful
\* set_shader, and a frame that tests the flag in that period, set or not,
\* leaves current and rollback as they are and leaves the flag clear.
C7_RollbackIdempotent ==
    /\ [][ last_op' = "render_to:rollback" =>
             (SHADER_ERROR /\ ~SHADER_ERROR' /\ last_compute_pipelines' = None) ]_vars
    /\ [](rolled_back => last_compute_pipelines = None)
    /\ [][ (ConsumeStep /\ ~SHADER_ERROR) =>
             /\ compute_pipelines' = compute_pipelines
             /\ last_compute_pipelines' = last_compute_pipelines ]_vars
    /\ [][ (ConsumeStep /\ rolled_back) =>
             /\ compute_pipelines' = compute_pipelines
             /\ last_compute_pipelines' = last_compute_pipelines
             /\ SHADER_ERROR' = FALSE ]_vars

\* C7 witness: after a rollback and no successful set_shader since, a frame
\* has consumed a second signal, and a set is still running.
C7_Witness ==
    /\ last_op = "render_to:no_rollback"
    /\ rolled_back
    /\ compute_pipelines # <<>>
    /\ ~SHADER_ERROR

\* C8: while a frame records its dispatches current does not change, the
\* dispatches recorded so far are the first stages of the set the frame had
\* at its test of the flag, in order, and the command buffer submitted
\* dispatches exactly that set; all of them are pipelines of one module.
C8_FrameOneGeneration ==
    /\ pc = "dispatch" =>
          /\ compute_pipelines = frame_set
          /\ Dispatched(encoder) = SubSeq(PipelinesOf(frame_set), 1, stage_idx - 1)
    /\ last_op = "render_to:submit" =>
          /\ Dispatched(submitted) = PipelinesOf(frame_set)
          /\ \A i, j \in 1..Len(Dispatched(submitted)) :
                Dispatched(submitted)[i].module = Dispatched(submitted)[j].module

\* C8 witness: a frame of two stages is submitted whole although a fault was
\* signalled after its test of the flag (the flag is still set, for the
\* next frame, and the rollback set is still stored).
C8_Witness ==
    /\ last_op = "render_to:submit"
    /\ Len(Dispatched(submitted)) = 2
    /\ SHADER_ERROR
    /\ IsSome(last_compute_pipelines)
    /\ Unwrap(last_compute_pipelines) # <<>>

\* the commands of a frame after its buffer writes and before its blit
IsPassCommand(c) == c.cmd \in {"dispatch", "copy_texture_to_texture"}
PassCommands(cmds) == SelectSeq(cmds, IsPassCommand)

\* g is the least number of groups of size w that cover n
IsCeil(g, n, w) == g * w >= n /\ (g - 1) * w < n

\* the commands cmds are, for each of the first n stages of set in order, one
\* dispatch of the stage followed by one copy of tex_write into tex_read
AlternatesOver(cmds, set, n) ==
    /\ Len(cmds) = 2 * n
    /\ \A i \in 1..n :
          LET d == cmds[2 * i - 1]
              c == cmds[2 * i]
          IN  /\ d.cmd = "dispatch"
              /\ d.pipeline = set[i].pipeline
              /\ IsCeil(d.grid[1], screen_width, set[i].workgroup_size[1])
              /\ IsCeil(d.grid[2], screen_height, set[i].workgroup_size[2])
              /\ d.grid[3] = 1
              /\ c.cmd = "copy_texture_to_texture"
              /\ c.src = "tex_write"
              /\ c.dst = "tex_read"
              /\ c.extent = <<screen_width, screen_height, FEEDBACK_LAYERS>>

\* C9: the command buffer of a frame holds, for each stage of the frame's set
\* in order, one dispatch with grid (ceil(width / x), ceil(height / y), 1)
\* followed at once by one copy of tex_write into tex_read over the whole
\* viewport: N dispatches alternating with N copies; a workgroup size of
\* (8, 8, 1) over 64 x 64 gives the grid (8, 8, 1).
C9_DispatchThenCopyPerStage ==
    /\ pc = "dispatch" =>
          AlternatesOver(PassCommands(encoder), compute_pipelines, stage_idx - 1)
    /\ last_op = "render_to:submit" =>
          /\ AlternatesOver(PassCommands(submitted), compute_pipelines,
                            Len(compute_pipelines))
          /\ \A i \in 1..Len(submitted) :
                (/\ submitted[i].cmd = "dispatch"
                 /\ compute_pipelines[1].workgroup_size = <<8, 8, 1>>
                 /\ screen_width = 64 /\ screen_height = 64)
                => submitted[i].grid = <<8, 8, 1>>

\* C9 witness: a frame of two stages over a viewport of 100 x 30, which no
\* workgroup size divides, is submitted.
C9_Witness ==
    /\ last_op = "render_to:submit"
    /\ Len(compute_pipelines) = 2
    /\ screen_width = 100
    /\ screen_height = 30
    /\ Len(PassCommands(submitted)) = 4
    /\ submitted[5].grid = <<7, 2, 1>>
    /\ submitted[7].grid = <<13, 8, 1>>

\* C10: the frame counter equals the number of frames rendered since
\* construction or the last resize: a frame that is submitted advances it by
\* one, resize sets it to 0, and no other step (a skipped render, set_shader,
\* the rollback, a setter, on_error, the error closure) changes it.
C10_FrameCounter ==
    /\ [](time.frame = frames_rendered)
    /\ [][ last_op' = "render_to:submit" => time.frame' = time.frame + 1 ]_vars
    /\ [][ last_op' = "resize" => time.frame' = 0 ]_vars
    /\ [][ time.frame' # time.frame => last_op' \in {"render_to:submit", "resize"} ]_vars

\* C10 witness: the first frame after a resize is submitted, after a rollback
\* and after setters have run; the counter reads 1.
C10_Witness ==
    /\ last_op = "render_to:submit"
    /\ time.frame = 1
    /\ screen_width = 100
    /\ rolled_back
    /\ time.elapsed # F32_ZERO
    /\ keys # {}
    /\ pass_f32

\* the viewport-sized resources of unif have dimensions width x height
ViewportSized(unif, width, height) ==
    /\ unif.tex_read.width = width /\ unif.tex_read.height = height
    /\ unif.tex_write.width = width /\ unif.tex_write.height = height
    /\ unif.tex_screen.width = width /\ unif.tex_screen.height = height
    /\ unif.storage_buffer = 16 * width * height

\* C11: resize(w, h) leaves the frame counter at 0, the viewport size at
\* (w, h), the feedback textures, the screen texture and the storage buffer
\* sized for w x h, and the bind group built over these new resources; in
\* every state the resources have the size of the viewport and the bind group
\* refers to them, and every frame submitted binds that bind group, copies
\* tex_write to tex_read over the whole viewport and blits the screen texture
\* of the viewport's size.
C11_ResizeInvariant ==
    /\ [][ \A sz \in Sizes :
             resize(sz[1], sz[2]) =>
                /\ time'.frame = 0
                /\ screen_width' = sz[1]
                /\ screen_height' = sz[2]
                /\ ViewportSized(uniforms', sz[1], sz[2])
                /\ compute_bind_group'.uniforms = uniforms' ]_vars
    /\ [](/\ ViewportSized(uniforms, screen_width, screen_height)
          /\ compute_bind_group.uniforms = uniforms)
    /\ [](last_op = "render_to:submit" =>
             \A i \in 1..Len(submitted) :
                /\ submitted[i].cmd = "dispatch" =>
                      /\ submitted[i].bind_group = compute_bind_group
                      /\ \E j \in 1..Len(compute_pipelines) :
                            /\ submitted[i].pipeline = compute_pipelines[j].pipeline
                            /\ IsCeil(submitted[i].grid[1], screen_width,
                                      compute_pipelines[j].workgroup_size[1])
                            /\ IsCeil(submitted[i].grid[2], screen_height,
                                      compute_pipelines[j].workgroup_size[2])
                /\ submitted[i].cmd = "copy_texture_to_texture" =>
                      submitted[i].extent = <<screen_width, screen_height, FEEDBACK_LAYERS>>
                /\ submitted[i].cmd = "blit" =>
                      /\ submitted[i].src = uniforms.tex_screen
                      /\ submitted[i].src.width = screen_width)

\* C11 witness: the first frame after resize(100, 30) is submitted; its
\* dispatch binds textures of 100 x 30 and covers 100 columns with 13 groups
\* of 8.
C11_Witness ==
    /\ last_op = "render_to:submit"
    /\ time.frame = 1
    /\ screen_width = 100
    /\ Len(compute_pipelines) = 1
    /\ submitted[5].cmd = "dispatch"
    /\ submitted[5].grid = <<13, 4, 1>>
    /\ submitted[5].bind_group.uniforms.tex_write.width = 100
    /\ submitted[5].bind_group.uniforms.tex_write.height = 30

\* C12: a frame that is submitted uses feedback textures of the format of the
\* precision flag as it is during that frame: after set_pass_f32 changed the
\* flag, the next render has reallocated them.
C12_PrecisionReallocatedAtRender ==
    last_op = "render_to:submit" =>
       /\ uniforms.tex_read.format = TexFormat(pass_f32)
       /\ uniforms.tex_write.format = TexFormat(pass_f32)
       /\ compute_bind_group.uniforms.tex_read.format = TexFormat(pass_f32)
       /\ compute_bind_group.layout = compute_bind_group_layout_entries(pass_f32)
       /\ \A i \in 1..Len(submitted) :
             submitted[i].cmd = "dispatch" =>
                submitted[i].bind_group.uniforms.tex_write.format = TexFormat(pass_f32)

\* C13: the map of custom parameters never has more than MAX_CUSTOM_PARAMS
\* entries, and the bytes a frame stages for the custom buffer never exceed
\* the size of that buffer.
C13_CustomParamsBounded ==
    /\ Cardinality(DOMAIN custom) <= MAX_CUSTOM_PARAMS
    /\ Len(CustomBytes(custom)) <= uniforms.custom_size
    /\ \A i \in 1..Len(encoder) :
          encoder[i].cmd = "write_buffer" =>
             Len(encoder[i].data) <= BufferSize(uniforms, encoder[i].buffer)

\* bit index of the Lsb0 byte array bytes
BitOf(bytes, index) == (bytes[(index \div 8) + 1] \div Pow2(index % 8)) % 2

\* C14: set_keydown(code, pressed) with code below NUM_KEYCODES makes bit
\* `code` equal to pressed and leaves every other bit as it was; with code at
\* or above NUM_KEYCODES the call panics and no bit changes.  Only bits
\* 0 .. NUM_KEYCODES - 1 exist, and the bytes uploaded for the keys hold bit
\* k exactly when key k is down.
C14_KeyStateExact ==
    /\ [][ \A k \in InputKeyCodes, b \in BOOLEAN :
             set_keydown(k, b) =>
                IF k < NUM_KEYCODES
                THEN /\ ~panicked'
                     /\ \A j \in 0..(NUM_KEYCODES - 1) :
                           (j \in keys') = (IF j = k THEN b ELSE j \in keys)
                ELSE /\ panicked'
                     /\ keys' = keys ]_vars
    /\ [][ keys' # keys => last_op' = "set_keydown" ]_vars
    /\ [](/\ keys \subseteq 0..(NUM_KEYCODES - 1)
          /\ Len(KeyBytes(keys)) * 8 = NUM_KEYCODES
          /\ \A j \in 0..(NUM_KEYCODES - 1) :
                (BitOf(KeyBytes(keys), j) = 1) = (j \in keys))

\* C14 witness: with keys 9 and 255 down, a call with key code 256 has
\* panicked and both bits are still set.
C14_Witness ==
    /\ last_op = "set_keydown"
    /\ panicked
    /\ keys = {9, NUM_KEYCODES - 1}

\* C15: the map of custom parameters has an entry in every state: the
\* placeholder "_dummy" is there from new(), no step removes a name, so the
\* struct Custom of every prelude has a field and every frame has bytes to
\* stage for the custom buffer.
C15_CustomNeverEmpty ==
    /\ [](/\ Cardinality(DOMAIN custom) >= 1
          /\ NameDummy \in DOMAIN custom
          /\ Len(prelude(custom, pass_f32).fields) >= 1
          /\ Len(CustomBytes(custom)) >= 4)
    /\ [](\A i \in 1..Len(compute_pipelines) :
             Len(compute_pipelines[i].pipeline.prelude.fields) >= 1)
    /\ [](pc # "idle" => (encoder[1].cmd = "write_buffer" /\ encoder[1].buffer = "custom"))
    /\ [][ DOMAIN custom \subseteq DOMAIN custom' ]_vars

\* C15 witness: after both parameters were set, a frame stages the custom
\* bytes of three entries, the placeholder among them.
C15_Witness ==
    /\ last_op = "render_to:upload"
    /\ DOMAIN custom = {NameDummy, NameA, NameB}
    /\ Len(encoder[1].data) = 12
    /\ logged = <<>>

\* the names of the input specification in the byte order of str:
\* "_dummy" < "a" < "b"
InputNameOrder == <<NameDummy, NameA, NameB>>

\* the names of names that belong to S, in that order
Among(names, S) == LET Has(n) == n \in S IN SelectSeq(names, Has)

\* the elements of the sequence s
Range(s) == {s[i] : i \in 1..Len(s)}

\* C16: whatever the order of insertion, the fields of struct Custom are the
\* names of the map in ascending byte order and the bytes staged for the
\* custom buffer are the values in that same order, in the prelude of every
\* compiled pipeline too; set_custom_float changes the value of its name
\* only, and on a name already present it leaves the order as it is.
C16_SortedFieldOrder ==
    /\ [](LET exp == Among(InputNameOrder, DOMAIN custom)
          IN  /\ prelude(custom, pass_f32).fields = exp
              /\ CustomBytes(custom) = FlatBytes([i \in 1..Len(exp) |-> custom[exp[i]]])
              /\ pc = "consume" =>
                    encoder[1] = [cmd |-> "write_buffer", buffer |-> "custom",
                                  data |-> FlatBytes([i \in 1..Len(exp) |-> custom[exp[i]]])])
    /\ [](\A i \in 1..Len(compute_pipelines) :
             LET fs == compute_pipelines[i].pipeline.prelude.fields
             IN  fs = Among(InputNameOrder, Range(fs)))
    /\ [][ \A n \in InputNames, v \in F32Values :
             set_custom_float(n, v) =>
                /\ DOMAIN custom' = DOMAIN custom \cup {n}
                /\ custom'[n] = v
                /\ \A m \in DOMAIN custom \ {n} : custom'[m] = custom[m]
                /\ n \in DOMAIN custom =>
                      prelude(custom', pass_f32).fields = prelude(custom, pass_f32).fields
          ]_vars

\* C16 witness: with a = 2.0 and b = 1.0 in the map and a shader compiled
\* with the fields _dummy, a, b, a frame stages 0.0, 2.0, 1.0.
C16_Witness ==
    /\ last_op = "render_to:upload"
    /\ DOMAIN custom = {NameDummy, NameA, NameB}
    /\ custom[NameA] = 1073741824
    /\ custom[NameB] = 1065353216
    /\ Len(compute_pipelines) = 1
    /\ compute_pipelines[1].pipeline.prelude.fields = <<NameDummy, NameA, NameB>>
    /\ encoder[1].data = <<0, 0, 0, 0, 0, 0, 0, 64, 0, 0, 128, 63>>

\* the row a report must carry for row `row` of the assembled source when the
\* prelude has prelude_len lines
UserRow(row, prelude_len) == IF row - prelude_len > 0 THEN row - prelude_len ELSE 0

\* C17: every call of the callback, for a text that does not parse and for a
\* diagnostic of the device that matched the pattern, carries the row
\* max(0, row - n) and the column unchanged, n being the number of lines of
\* the prelude of the custom parameters as they are at the time of the call.
C17_RowRemappedByCurrentPrelude ==
    [][ LET n == prelude(custom, pass_f32).newlines
        IN  /\ \A i \in 1..Len(cb_calls') : cb_calls'[i].row >= 0
            /\ last_op' = "set_shader:err" =>
                  LET e == parse_str(prelude(custom, pass_f32), ShaderOf(last_arg'))
                  IN  /\ Len(cb_calls') = 1
                      /\ cb_calls'[1].row = UserRow(e.row, n)
                      /\ cb_calls'[1].col = e.col
            /\ (uncaptured_error /\ cb_calls' # <<>>) =>
                  LET d == Head(device_errors)
                  IN  /\ IsSome(d.row) => cb_calls'[1].row = UserRow(Unwrap(d.row), n)
                      /\ IsSome(d.col) => cb_calls'[1].col = Unwrap(d.col)
      ]_vars

\* C18: every diagnostic the device delivers to the registered closure sets
\* SHADER_ERROR, whether or not it matches the pattern, so that the next
\* frame rolls back.
C18_EveryFaultSetsFlag ==
    [][ (uncaptured_error /\ uncaptured_handler # None) => SHADER_ERROR' ]_vars

\* C19: a diagnostic that does not match the pattern makes no call of the
\* callback; the registered closure logs it.
C19_UnmatchedNotForwarded ==
    [][ (uncaptured_error /\ ~Head(device_errors).matched) =>
           /\ cb_calls' = <<>>
           /\ uncaptured_handler # None => logged' = <<"error: uncaptured">> ]_vars

\* C19 witness: with c2 registered, the closure has just been given a
\* diagnostic that does not match: it logged it and called nothing.
C19_Witness ==
    /\ last_op = "uncaptured_error"
    /\ on_error_cb = Some("c2")
    /\ logged = <<"error: uncaptured">>
    /\ cb_calls = <<>>
    /\ ~SHADER_ERROR

\* C20: there is one sink: on_error(c) makes c the callback of the renderer
\* and of the closure given to the device, in place of any earlier one; a
\* text that does not parse and a matched diagnostic are each reported by
\* exactly one call, made to the callback registered last and to no other.
C20_SingleErrorSink ==
    /\ [](uncaptured_handler # None =>
             Unwrap(uncaptured_handler).on_error_cb = on_error_cb)
    /\ [][ \A c \in Callbacks :
             on_error(c) =>
                /\ on_error_cb' = Some(c)
                /\ Unwrap(uncaptured_handler').on_error_cb = Some(c)
                /\ cb_calls' = <<>> ]_vars
    /\ [][ /\ Len(cb_calls') <= 1
           /\ \A i \in 1..Len(cb_calls') : cb_calls'[i].to = on_error_cb
           /\ last_op' = "set_shader:err" => Len(cb_calls') = 1
           /\ (/\ uncaptured_error
               /\ uncaptured_handler # None
               /\ Head(device_errors).matched) => Len(cb_calls') = 1
           /\ on_error_cb' # on_error_cb => last_op' = "on_error" ]_vars

\* C20 witness: c2, registered in place of c1, has just received a
\* diagnostic of the device.
C20_Witness ==
    /\ last_op = "uncaptured_error"
    /\ on_error_cb = Some("c2")
    /\ Len(cb_calls) = 1
    /\ cb_calls[1].to = Some("c2")

\* C21: a render that gets no surface texture records and submits nothing and
\* leaves the frame counter, both pipeline slots, SHADER_ERROR and every
\* other field of the renderer and of the device as they were; it only logs.
\* A rollback that was pending is still pending for the next render.
C21_SkippedFrameChangesNothing ==
    [][ render_skip =>
           /\ UNCHANGED << renderer_vars, SHADER_ERROR, uncaptured_handler,
                           frame_vars, device_vars, panicked >>
           /\ submitted' = <<>>
           /\ cb_calls' = <<>>
           /\ logged' = <<"error: Unable to get framebuffer">> ]_vars

\* C21 witness: a frame is skipped while a rollback to a set of one stage is
\* pending, after a frame was rendered.
C21_Witness ==
    /\ last_op = "render:skip"
    /\ SHADER_ERROR
    /\ time.frame = 1
    /\ IsSome(last_compute_pipelines)
    /\ Len(Unwrap(last_compute_pipelines)) = 1
    /\ Len(compute_pipelines) = 1

\* the workgroup sizes of the compute entry points of a shader text, in
\* source order
ComputeSizes(shader) ==
    LET es == SelectSeq(shader.eps, IsCompute)
    IN  [i \in 1..Len(es) |-> es[i].workgroup_size]

\* C22: after set_shader of a valid text, compute_pipelines has one stage for
\* each compute entry point of the text and none for any other entry point,
\* in the order of declaration, each with the workgroup size of its entry
\* point and a pipeline of the module just created; a text without a
\* compute entry point gives the empty set.
C22_OneStagePerComputeEntryPoint ==
    [][ last_op' = "set_shader:ok" =>
           LET s == ShaderOf(last_arg')
           IN  /\ Len(compute_pipelines') = Len(ComputeNames(s))
               /\ \A i \in 1..Len(compute_pipelines') :
                     /\ compute_pipelines'[i].pipeline.entry_point = ComputeNames(s)[i]
                     /\ compute_pipelines'[i].workgroup_size = ComputeSizes(s)[i]
                     /\ compute_pipelines'[i].pipeline.module = modules_created'
                     /\ compute_pipelines'[i].pipeline.source = s.id ]_vars

\* C22 witness: the text with the entry points p1 (compute), fs (fragment)
\* and p2 (compute) is installed over the text without a compute entry point,
\* which had given the empty set.
C22_Witness ==
    /\ last_op = "set_shader:ok"
    /\ last_arg = "B"
    /\ modules_created = 3
    /\ Len(compute_pipelines) = 2
    /\ compute_pipelines[1].pipeline.entry_point = "p1"
    /\ compute_pipelines[1].workgroup_size = <<16, 16, 1>>
    /\ compute_pipelines[2].pipeline.entry_point = "p2"
    /\ compute_pipelines[2].workgroup_size = <<8, 4, 1>>
    /\ last_compute_pipelines = Some(<<>>)

\* the values of last_op that name a setter
SetterOps ==
    { "set_time_elapsed", "set_mouse_pos", "set_mouse_click", "set_keydown",
      "set_custom_float", "set_pass_f32" }

\* C23: a setter creates no module and no pipeline and leaves both pipeline
\* slots, SHADER_ERROR, the frame counter, the GPU resources and the device
\* as they were; it writes its own field only: set_time_elapsed the elapsed
\* time, set_mouse_pos and set_mouse_click the mouse, set_keydown the keys,
\* set_pass_f32 the flag, and set_custom_float one entry of custom, which it
\* adds or updates.
C23_SettersDoNotRecompile ==
    [][ last_op' \in SetterOps =>
           /\ UNCHANGED << compute_pipelines, last_compute_pipelines, SHADER_ERROR,
                           uniforms, compute_bind_group, compute_bind_group_layout,
                           compute_pipeline_layout, screen_width, screen_height,
                           on_error_cb, uncaptured_handler, frame_vars, device_vars >>
           /\ time'.frame = time.frame
           /\ cb_calls' = <<>>
           /\ last_op' # "set_time_elapsed" => time' = time
           /\ last_op' \notin {"set_mouse_pos", "set_mouse_click"} => mouse' = mouse
           /\ last_op' = "set_mouse_pos" => mouse'.click = mouse.click
           /\ last_op' = "set_mouse_click" => mouse'.pos = mouse.pos
           /\ last_op' # "set_keydown" => (keys' = keys /\ ~panicked')
           /\ last_op' # "set_pass_f32" => pass_f32' = pass_f32
           /\ last_op' # "set_custom_float" => custom' = custom
           /\ last_op' = "set_custom_float" =>
                 /\ DOMAIN custom \subseteq DOMAIN custom'
                 /\ Cardinality(DOMAIN custom' \ DOMAIN custom) <= 1
                 /\ Cardinality({n \in DOMAIN custom : custom'[n] # custom[n]})
                       + Cardinality(DOMAIN custom' \ DOMAIN custom) <= 1 ]_vars

\* C23 witness: set_custom_float has added the parameter a while a pipeline
\* set of one stage is current, a rollback set is stored, a rollback is
\* pending and one frame has been rendered.
C23_Witness ==
    /\ last_op = "set_custom_float"
    /\ NameA \in DOMAIN custom
    /\ Len(compute_pipelines) = 1
    /\ compute_pipelines[1].pipeline.prelude.fields = <<NameDummy>>
    /\ IsSome(last_compute_pipelines)
    /\ SHADER_ERROR
    /\ time.frame = 1

\* the i-th group of four bytes of data
FloatAt(data, i) == SubSeq(data, 4 * i - 3, 4 * i)

\* C24: in every frame that dispatches a pipeline set, the i-th float staged
\* for the custom buffer is the value of the parameter that is the i-th field
\* of struct Custom in the prelude the set was compiled with.
C24_UploadMatchesCompiledLayout ==
    (pc = "dispatch" /\ compute_pipelines # <<>>) =>
       LET fs   == compute_pipelines[1].pipeline.prelude.fields
           data == encoder[1].data
       IN  \A i \in 1..Len(fs) :
              4 * i <= Len(data) => FloatAt(data, i) = LeBytes32(custom[fs[i]])

\* the buffers of the four uploads of a frame, in the order of recording
UploadOrder == <<"custom", "time", "mouse", "keys">>

\* the first four commands of cmds are the four uploads, and the time upload
\* carries the frame counter value frame
StartsWithUploads(cmds, frame) ==
    /\ Len(cmds) >= 4
    /\ \A i \in 1..4 :
          cmds[i].cmd = "write_buffer" /\ cmds[i].buffer = UploadOrder[i]
    /\ FloatAt(cmds[2].data, 1) = LeBytes32(frame)

\* C25: a frame records its four uploads (custom, time, mouse, keys) first;
\* it tests SHADER_ERROR after that, with nothing dispatched yet; it then
\* records the dispatches and copies of its stages behind the uploads; the
\* frame counter is advanced only when all stages are recorded, in the step
\* that records the blit last and submits.  The counter value uploaded is the
\* one before the increment: 0 for the first frame after new() or resize.
C25_FrameStepOrder ==
    /\ [](pc = "consume" =>
             /\ Len(encoder) = 4
             /\ StartsWithUploads(encoder, time.frame))
    /\ [][ ConsumeStep => (encoder' = encoder /\ time' = time) ]_vars
    /\ [](pc = "dispatch" =>
             /\ Len(encoder) = 4 + 2 * (stage_idx - 1)
             /\ StartsWithUploads(encoder, time.frame)
             /\ \A i \in 5..Len(encoder) : IsPassCommand(encoder[i]))
    /\ [][ time'.frame = time.frame + 1 =>
             /\ pc = "dispatch"
             /\ stage_idx = Len(compute_pipelines) + 1
             /\ pc' = "idle"
             /\ submitted' = encoder \o << [cmd |-> "blit", src |-> uniforms.tex_screen] >>
          ]_vars
    /\ [](last_op = "render_to:submit" =>
             /\ StartsWithUploads(submitted, time.frame - 1)
             /\ Len(submitted) = 4 + 2 * Len(compute_pipelines) + 1
             /\ \A i \in 5..(Len(submitted) - 1) : IsPassCommand(submitted[i])
             /\ submitted[Len(submitted)].cmd = "blit"
             /\ frames_rendered = 1 => FloatAt(submitted[2].data, 1) = <<0, 0, 0, 0>>)

\* C25 witness: the second frame, which rolled back at its test of
\* SHADER_ERROR to a set of one stage, is submitted: four uploads with the
\* counter value 1, one dispatch and one copy, the blit.
C25_Witness ==
    /\ last_op = "render_to:submit"
    /\ frame_outcome = "rollback"
    /\ time.frame = 2
    /\ Len(submitted) = 7
    /\ FloatAt(submitted[2].data, 1) = <<1, 0, 0, 0>>
    /\ submitted[5].cmd = "dispatch"
    /\ submitted[7].cmd = "blit"

\* C26: when texts A, F, B are installed in this order and F is the one that
\* faults, a rollback makes current the set that was current before F was
\* installed, the set of A, and never the set of F, whether or not B was
\* installed between the fault and the frame that rolls back.
C26_RollbackSkipsFaultingSet ==
    [][ (ConsumeStep /\ frame_outcome' = "rollback") =>
           /\ compute_pipelines' # <<>>
           /\ \A i \in 1..Len(compute_pipelines') :
                 /\ compute_pipelines'[i].pipeline.source = "A"
                 /\ ~compute_pipelines'[i].pipeline.faults ]_vars

\* C27: a fault signalled through the closure of the first renderer is not
\* seen by the second: a render of the second renderer, on whose device no
\* fault is ever raised, leaves its pipeline slots and SHADER_ERROR as they
\* were.
C27_FlagScopedToOneRenderer ==
    [][ second_render =>
           /\ second'.compute_pipelines = second.compute_pipelines
           /\ second'.last_compute_pipelines = second.last_compute_pipelines
           /\ SHADER_ERROR' = SHADER_ERROR ]_vars

\* C28: in every frame that is rendered with a pipeline set, the feedback
\* format of the prelude the current pipelines were compiled with, the format
\* of the allocated read and write feedback textures, and the layout the
\* current pipelines were created with name the same precision.
C28_PrecisionConsistent ==
    last_op = "render_to:submit" =>
       \A i \in 1..Len(compute_pipelines) :
          LET p == compute_pipelines[i].pipeline
          IN  /\ uniforms.tex_read.format = uniforms.tex_write.format
              /\ p.prelude.pass_format = WgslFormat(uniforms.tex_write.format)
              /\ p.layout.pass_out_format = uniforms.tex_write.format

\* a diagnostic is delivered to the closure, which stores true into
\* SHADER_ERROR (line 787)
SignalStep ==
    /\ last_op' = "uncaptured_error"
    /\ device_errors # <<>>
    /\ Head(device_errors).matched
    /\ uncaptured_handler # None

\* C29: fault signals coalesce.  A signal sets SHADER_ERROR whenever it
\* arrives, before or after the consume point of a frame, and whether or
\* not the flag is already set; a set flag stays set until the next consume
\* point; a consume point that finds the flag set makes exactly one rollback
\* attempt (the rollback set becomes current and the slot is emptied, or
\* the warning is logged once) and one that finds it clear makes none; the
\* flag is false right after every consume point.
C29_FaultSignalsCoalesce ==
    /\ [][ SignalStep => SHADER_ERROR' ]_vars
    /\ [][ (SHADER_ERROR /\ ~ConsumeStep) => SHADER_ERROR' ]_vars
    /\ [][ ConsumeStep =>
             /\ ~SHADER_ERROR'
             /\ IF SHADER_ERROR
                THEN /\ frame_outcome' \in {"rollback", "no_rollback"}
                     /\ last_compute_pipelines' = None
                     /\ IF IsSome(last_compute_pipelines)
                        THEN /\ compute_pipelines' = Unwrap(last_compute_pipelines)
                             /\ logged' = <<>>
                        ELSE /\ compute_pipelines' = compute_pipelines
                             /\ logged' = <<RollbackWarning>>
                ELSE /\ frame_outcome' = "no_error"
                     /\ compute_pipelines' = compute_pipelines
                     /\ last_compute_pipelines' = last_compute_pipelines
                     /\ logged' = <<>> ]_vars

\* C29 witness: a frame consumed an earlier signal and rolled back, and a
\* further signal arrived after its consume point, while it was being
\* recorded: the flag is set again, for the following frame.
C29_Witness ==
    /\ last_op = "uncaptured_error"
    /\ pc = "dispatch"
    /\ frame_outcome = "rollback"
    /\ cb_calls # <<>>
    /\ SHADER_ERROR

\* a consume point lies ahead: the frame being recorded has not reached it,
\* or a further frame will be recorded (MaxFrames bounds the frames)
ConsumeAhead ==
    \/ pc = "consume"
    \/ pc = "idle" /\ time.frame < MaxFrames
    \/ pc = "dispatch" /\ time.frame + 1 < MaxFrames

\* C30: recovery is live.  With render() called again and again and a
\* texture eventually acquired, a set SHADER_ERROR is eventually cleared;
\* once clear it stays clear unless a further fault is signalled; no
\* compile error, runtime fault or skipped frame panics or stops frames:
\* whenever a frame can start, a frame is eventually submitted.
C30_RecoveryIsLive ==
    /\ (SHADER_ERROR /\ ConsumeAhead) ~> ~SHADER_ERROR
    /\ [][ (~SHADER_ERROR /\ ~SignalStep) => ~SHADER_ERROR' ]_vars
    /\ [](~panicked)
    /\ (pc = "idle" /\ time.frame < MaxFrames) ~> (last_op = "render_to:submit")

\* C30 witness: after a text that did not parse and a fault whose signal
\* made a frame roll back, a second frame has been submitted and the flag
\* is clear.
C30_Witness ==
    /\ last_op = "render_to:submit"
    /\ frame_outcome = "rollback"
    /\ frames_rendered >= 2
    /\ ~SHADER_ERROR
    /\ device_errors = <<>>

====
